---- MODULE Spec2Model ----
(***************************************************************************)
(* Model of src/app.py: the Ocean Hazard detector (prompt, model call,     *)
(* response normalisation), the multi-location aggregator, the polling    *)
(* monitor and the two HTTP endpoints.                                     *)
(*                                                                         *)
(* Text is a sequence of characters, each character a one-character        *)
(* string.  The backtick cannot stand alone in a TLA+ string literal, so   *)
(* that one character is written BQ.  Python values are tagged records     *)
(* [t, v, m]: t the Python type, v the text of a scalar, m the members of  *)
(* a dict (a function from keys) or of a list (a sequence).                *)
(***************************************************************************)
EXTENDS Integers, Sequences, FiniteSets, TLC

(***************************************************************************)
(* Python str operations used by the normaliser.                           *)
(***************************************************************************)
BQ == "<bq>"

\* Whitespace removed by str.strip(); the characters of it that the
\* modelled texts can hold.
PyWhitespace == {" ", "\t", "\n", "\r", "\f"}

RECURSIVE lstrip(_)
lstrip(s) == IF s # <<>> /\ Head(s) \in PyWhitespace THEN lstrip(Tail(s)) ELSE s

RECURSIVE rstrip(_)
rstrip(s) ==
    IF s # <<>> /\ s[Len(s)] \in PyWhitespace
    THEN rstrip(SubSeq(s, 1, Len(s) - 1))
    ELSE s

strip(s) == rstrip(lstrip(s))

startswith(s, prefix) ==
    Len(s) >= Len(prefix) /\ SubSeq(s, 1, Len(prefix)) = prefix

\* s[start:stop] for start >= 0; a negative stop counts from the end, and
\* both ends are clamped to the text as Python clamps them.
PySlice(s, start, stop) ==
    LET n  == Len(s)
        lo == IF start > n THEN n ELSE start
        hi == IF stop < 0
              THEN (IF n + stop < 0 THEN 0 ELSE n + stop)
              ELSE (IF stop > n THEN n ELSE stop)
    IN  SubSeq(s, lo + 1, hi)

\* s[i:i+1]: the character at 0-based index i, "" past the end.
At(s, i) == IF i >= 0 /\ i < Len(s) THEN s[i + 1] ELSE ""

(***************************************************************************)
(* Python values.                                                          *)
(***************************************************************************)
JNone    == [t |-> "NoneType", v |-> "null", m |-> <<>>]
JStr(x)  == [t |-> "str", v |-> x, m |-> <<>>]
JInt(x)  == [t |-> "int", v |-> x, m |-> <<>>]
JBool(x) == [t |-> "bool", v |-> x, m |-> <<>>]
JList(xs) == [t |-> "list", v |-> "", m |-> xs]
JDict(f) == [t |-> "dict", v |-> "", m |-> f]

\* d[key] = value on a dict: the key is added or overwritten.
SetItem(d, key, value) == JDict((key :> value) @@ d.m)

\* d.get(key): None when the key is absent.
Get(d, key) == IF key \in DOMAIN d.m THEN d.m[key] ELSE JNone

(***************************************************************************)
(* json.loads, as json.decoder computes it, for the JSON texts made of     *)
(* objects, arrays, strings without escapes, unsigned integers and the     *)
(* three literals.  Indexes are Python's 0-based ones.                     *)
(***************************************************************************)
JsonWs == {" ", "\t", "\n", "\r"}
Digits == {"0", "1", "2", "3", "4", "5", "6", "7", "8", "9"}
ControlChars == {"\t", "\n", "\r", "\f"}

Ok(val, end)    == [ok |-> TRUE, val |-> val, end |-> end, msg |-> ""]
Err(msg, pos)   == [ok |-> FALSE, val |-> JNone, end |-> pos, msg |-> msg]
\* scan_once's StopIteration(idx): every caller turns it into "Expecting value".
StopIteration(idx) == Err("Expecting value", idx)

RECURSIVE SkipWs(_, _)
SkipWs(s, i) == IF At(s, i) \in JsonWs THEN SkipWs(s, i + 1) ELSE i

\* py_scanstring from index i, the opening quote being at index begin.
RECURSIVE scanstring(_, _, _, _)
scanstring(s, begin, i, acc) ==
    LET c == At(s, i)
    IN  IF c = "" THEN Err("Unterminated string starting at", begin)
        ELSE IF c = "\"" THEN Ok(JStr(acc), i + 1)
        ELSE IF c \in ControlChars THEN Err("Invalid control character at", i)
        ELSE scanstring(s, begin, i + 1, acc \o c)

\* NUMBER_RE restricted to (0|[1-9][0-9]*).
RECURSIVE ScanDigits(_, _, _)
ScanDigits(s, i, acc) ==
    IF At(s, i) \in Digits THEN ScanDigits(s, i + 1, acc \o At(s, i))
    ELSE Ok(JInt(acc), i)

ScanNumber(s, i) ==
    IF At(s, i) = "0" THEN Ok(JInt("0"), i + 1) ELSE ScanDigits(s, i, "")

RECURSIVE scan_once(_, _)
RECURSIVE ObjectMembers(_, _, _)
RECURSIVE ArrayItems(_, _, _)

\* JSONObject: end is the index after the opening brace.
ObjectStart(s, e1) ==
    IF At(s, e1) = "}" THEN Ok(JDict(<<>>), e1 + 1)
    ELSE IF At(s, e1) # "\""
    THEN Err("Expecting property name enclosed in double quotes", e1)
    ELSE ObjectMembers(s, e1 + 1, <<>>)

JSONObject(s, end) ==
    ObjectStart(s, IF At(s, end) # "\"" /\ At(s, end) \in JsonWs
                   THEN SkipWs(s, end) ELSE end)

\* The steps of JSONObject's while loop: after the value, the closing brace
\* or a comma and the next key; a repeated key keeps its last value.
ObjectAfterValue(s, pairs, e4) ==
    IF At(s, e4) = "}" THEN Ok(JDict(pairs), e4 + 1)
    ELSE IF At(s, e4) # "," THEN Err("Expecting ',' delimiter", e4)
    ELSE IF At(s, SkipWs(s, e4 + 1)) # "\""
    THEN Err("Expecting property name enclosed in double quotes",
             SkipWs(s, e4 + 1))
    ELSE ObjectMembers(s, SkipWs(s, e4 + 1) + 1, pairs)

ObjectValue(s, key, value, pairs) ==
    IF ~value.ok THEN value
    ELSE ObjectAfterValue(s, (key :> value.val) @@ pairs, SkipWs(s, value.end))

ObjectColon(s, key, e2, pairs) ==
    IF At(s, e2) # ":" THEN Err("Expecting ':' delimiter", e2)
    ELSE ObjectValue(s, key, scan_once(s, SkipWs(s, e2 + 1)), pairs)

ObjectKey(s, key, pairs) ==
    IF ~key.ok THEN key
    ELSE ObjectColon(s, key.val.v,
                     IF At(s, key.end) # ":" THEN SkipWs(s, key.end) ELSE key.end,
                     pairs)

\* end is the index after the opening quote of the next key.
ObjectMembers(s, end, pairs) ==
    ObjectKey(s, scanstring(s, end - 1, end, ""), pairs)

\* JSONArray: end is the index after the opening bracket.
ArrayStart(s, e1) ==
    IF At(s, e1) = "]" THEN Ok(JList(<<>>), e1 + 1)
    ELSE ArrayItems(s, e1, <<>>)

JSONArray(s, end) ==
    ArrayStart(s, IF At(s, end) \in JsonWs THEN SkipWs(s, end + 1) ELSE end)

ArrayAfterValue(s, values, e1) ==
    IF At(s, e1) = "]" THEN Ok(JList(values), e1 + 1)
    ELSE IF At(s, e1) # "," THEN Err("Expecting ',' delimiter", e1)
    ELSE ArrayItems(s, SkipWs(s, e1 + 1), values)

ArrayValue(s, value, values) ==
    IF ~value.ok THEN value
    ELSE ArrayAfterValue(s, Append(values, value.val), SkipWs(s, value.end))

ArrayItems(s, end, values) == ArrayValue(s, scan_once(s, end), values)

scan_once(s, idx) ==
    CASE At(s, idx) = "\"" -> scanstring(s, idx, idx + 1, "")
      [] At(s, idx) = "{"  -> JSONObject(s, idx + 1)
      [] At(s, idx) = "["  -> JSONArray(s, idx + 1)
      [] At(s, idx) = "n" /\ PySlice(s, idx, idx + 4) = <<"n", "u", "l", "l">>
                           -> Ok(JNone, idx + 4)
      [] At(s, idx) = "t" /\ PySlice(s, idx, idx + 4) = <<"t", "r", "u", "e">>
                           -> Ok(JBool("True"), idx + 4)
      [] At(s, idx) = "f" /\ PySlice(s, idx, idx + 5) = <<"f", "a", "l", "s", "e">>
                           -> Ok(JBool("False"), idx + 5)
      [] At(s, idx) \in Digits -> ScanNumber(s, idx)
      [] OTHER             -> StopIteration(idx)

\* JSONDecoder.decode: one value between optional whitespace, nothing after.
DecodeEnd(s, r) ==
    IF ~r.ok THEN r
    ELSE IF SkipWs(s, r.end) # Len(s) THEN Err("Extra data", SkipWs(s, r.end))
    ELSE r

decode(s) == DecodeEnd(s, scan_once(s, SkipWs(s, 0)))

\* JSONDecodeError.__init__: "msg: line L column C (char P)".
RECURSIVE CountNewlines(_, _)
CountNewlines(s, pos) ==
    IF pos <= 0 THEN 0
    ELSE (IF At(s, pos - 1) = "\n" THEN 1 ELSE 0) + CountNewlines(s, pos - 1)

RECURSIVE ColumnOf(_, _)
ColumnOf(s, pos) ==
    IF pos <= 0 \/ At(s, pos - 1) = "\n" THEN 1 ELSE 1 + ColumnOf(s, pos - 1)

errmsg(msg, s, pos) ==
    msg \o ": line " \o ToString(CountNewlines(s, pos) + 1)
        \o " column " \o ToString(ColumnOf(s, pos))
        \o " (char " \o ToString(pos) \o ")"

\* [raised, exc, value]: what a call produces, a returned value or a raised
\* exception, exc being the exception's class and str(e) its message.
Return(value) == [raised |-> FALSE, exc |-> "", str |-> "", value |-> value]
Raise(exc, str) == [raised |-> TRUE, exc |-> exc, str |-> str, value |-> JNone]

LoadsResult(s, r) ==
    IF r.ok THEN Return(r.val)
    ELSE Raise("JSONDecodeError", errmsg(r.msg, s, r.end))

json_loads(s) == LoadsResult(s, decode(s))

(***************************************************************************)
(* The external model: what generate_content can produce.  A response      *)
(* either raises or carries a text; inner and fence record how the text    *)
(* was made (the payload and the code fence around it).                    *)
(***************************************************************************)
Fence     == <<BQ, BQ, BQ>>
FenceJson == <<BQ, BQ, BQ, "j", "s", "o", "n">>

Quoted(s) == <<"\"">> \o s \o <<"\"">>
Member(key, value) == Quoted(key) \o <<":">> \o value

KeyLocation == <<"l", "o", "c", "a", "t", "i", "o", "n">>
KeyRisk ==
    <<"o", "v", "e", "r", "a", "l", "l", "_", "r", "i", "s", "k", "_",
      "l", "e", "v", "e", "l">>
KeyHazards == <<"h", "a", "z", "a", "r", "d", "s">>

\* {"location":"<location>","overall_risk_level":"<level>","hazards":<hazards>}
ReportText(location, level, hazards) ==
    <<"{">> \o Member(KeyLocation, Quoted(location)) \o <<",">>
            \o Member(KeyRisk, Quoted(level)) \o <<",">>
            \o Member(KeyHazards, hazards) \o <<"}">>

Payloads ==
    { ReportText(<<"A">>, <<"H", "I", "G", "H">>, <<"[", "]">>),
      ReportText(<<"B">>, <<"E", "X", "T", "R", "E", "M", "E">>, <<"[", "1", "]">>),
      ReportText(<<"B">>, <<"L", "O", "W">>, <<"[", "]">>),
      <<" ", "{", " ">> \o Member(KeyLocation, <<" ">> \o Quoted(<<"A">>))
                        \o <<"\n", "}", " ">>,
      <<"[", "1", "]">>,
      <<"S", "o", "r", "r", "y">>,
      <<>> }

Fences == {"none", "json", "bare", "open"}

Fenced(fence, inner) ==
    CASE fence = "none" -> inner
      [] fence = "json" -> FenceJson \o <<"\n">> \o inner \o <<"\n">> \o Fence
      [] fence = "bare" -> Fence \o <<"\n">> \o inner \o <<"\n">> \o Fence
      [] fence = "open" -> FenceJson \o <<"\n">> \o inner

TextResponse(fence, inner) ==
    [raises |-> FALSE, exc |-> "", str |-> "",
     text |-> Fenced(fence, inner), inner |-> inner, fence |-> fence]

FailedResponse ==
    [raises |-> TRUE, exc |-> "ConnectionError", str |-> "network unreachable",
     text |-> <<>>, inner |-> <<>>, fence |-> "none"]

NoResponse ==
    [raises |-> FALSE, exc |-> "", str |-> "",
     text |-> <<>>, inner |-> <<>>, fence |-> "none"]

Responses ==
    {FailedResponse} \cup
    {TextResponse(f, p) : f \in Fences, p \in Payloads}

Locations == {"A", "B"}
\* datetime.now().isoformat()
Times == {"2026-01-01T00:00:00"}

(***************************************************************************)
(* class OceanHazardDetector.                                              *)
(***************************************************************************)
\* The names the class body binds.  analyze_batch_social_posts is defined
\* at module level, and the two defs that follow it sit inside its body.
DetectorMethods ==
    {"__init__", "create_hazard_analysis_prompt", "analyze_current_hazards",
     "analyze_user_report"}

AttributeError(name) ==
    Raise("AttributeError",
          "'OceanHazardDetector' object has no attribute '" \o name \o "'")

\* detector.<name>(...): the attribute lookup, then the call's outcome.
Attr(name, outcome) ==
    IF name \in DetectorMethods THEN outcome ELSE AttributeError(name)

\* value[key] = item on a value that json.loads returned.
ItemAssignment(value, key, item) ==
    CASE value.t = "dict" -> Return(SetItem(value, key, item))
      [] value.t = "list" ->
            Raise("TypeError", "list indices must be integers or slices, not str")
      [] OTHER ->
            Raise("TypeError",
                  "'" \o value.t \o "' object does not support item assignment")

_create_error_response(location, error, now) ==
    JDict([location           |-> JStr(location),
           overall_risk_level |-> JStr("UNKNOWN"),
           hazards            |-> JList(<<>>),
           error              |-> JStr(error),
           analysis_time      |-> JStr(now)])

\* The json fence taken to be 6 characters long.
HazardsFenceShort(response_text) ==
    IF startswith(response_text, FenceJson)
    THEN strip(PySlice(response_text, 6, -3))
    ELSE IF startswith(response_text, Fence)
    THEN strip(PySlice(response_text, 3, -3))
    ELSE response_text

\* Lines 98-101, on the stripped text: the first 7 or 3 characters and the
\* last 3 are sliced off, whatever the last 3 are.
HazardsFence(response_text) ==
    IF startswith(response_text, FenceJson)
    THEN strip(PySlice(response_text, 7, -3))
    ELSE IF startswith(response_text, Fence)
    THEN strip(PySlice(response_text, 3, -3))
    ELSE response_text

\* Lines 97-101: the text the hazard scan hands to json.loads.
hazards_response_text(text) == HazardsFence(strip(text))

\* Lines 158-159: the user-report path slices the json fence only.
ReportFence(response_text) ==
    IF startswith(response_text, FenceJson)
    THEN strip(PySlice(response_text, 7, -3))
    ELSE response_text

\* Lines 157-159.
report_response_text(text) == ReportFence(strip(text))

\* Lines 209-212.
BatchFence(response_text) ==
    IF startswith(response_text, FenceJson)
    THEN strip(PySlice(response_text, 7, -3))
    ELSE IF startswith(response_text, Fence)
    THEN strip(PySlice(response_text, 3, -3))
    ELSE response_text

\* Lines 207-212.
batch_response_text(text) == BatchFence(strip(text))

\* Line 108, after line 107 succeeded.
HazardsSource(stamped) ==
    IF stamped.raised THEN stamped
    ELSE ItemAssignment(stamped.value, "source", JStr("gemini_web_analysis"))

\* Lines 103-115: the inner try, hazard_data being what json.loads gave.
HazardsParsed(location, hazard_data, now) ==
    IF hazard_data.raised
    THEN Attr("_create_error_response",
              Return(_create_error_response(location, "json_parse_error", now)))
    ELSE HazardsSource(ItemAssignment(hazard_data.value, "processed_at", JStr(now)))

\* Lines 89-115: the body of the outer try.
HazardsTry(location, response, now) ==
    IF response.raises THEN Raise(response.exc, response.str)
    ELSE IF response.text = <<>>
    THEN Attr("_create_error_response",
              Return(_create_error_response(location, "no_data", now)))
    ELSE HazardsParsed(location,
                       json_loads(hazards_response_text(response.text)), now)

\* Lines 117-119: except Exception as e.
HazardsExcept(location, body, now) ==
    IF body.raised
    THEN Attr("_create_error_response",
              Return(_create_error_response(location, body.str, now)))
    ELSE body

analyze_current_hazards(location, response, now) ==
    HazardsExcept(location, HazardsTry(location, response, now), now)

\* Lines 161-164.
ReportParsed(analysis, now) ==
    IF analysis.raised THEN analysis
    ELSE ItemAssignment(analysis.value, "processed_at", JStr(now))

\* Lines 150-164: the body of the try; image_data selects the vision model.
ReportTry(response, now) ==
    IF response.raises THEN Raise(response.exc, response.str)
    ELSE ReportParsed(json_loads(report_response_text(response.text)), now)

\* Lines 166-168.
ReportExcept(body) ==
    IF body.raised
    THEN Return(JDict([error |-> JStr(body.str), is_hazard |-> JBool("False")]))
    ELSE body

analyze_user_report(report_text, location, image_data, response, now) ==
    ReportExcept(ReportTry(response, now))

\* Lines 175-214: the body of the try.
BatchTry(response) ==
    IF response.raises THEN Raise(response.exc, response.str)
    ELSE json_loads(batch_response_text(response.text))

\* No except clause: the exception reaches the caller.
BatchExceptPropagates(body) == body

\* Lines 216-218.
BatchExcept(body) ==
    IF body.raised THEN Return(JDict([error |-> JStr(body.str)])) ELSE body

\* The text each path hands to json.loads, in a one-element sequence, or
\* the empty sequence when the path does not reach json.loads.
HazardsLoaded(response) ==
    IF response.raises \/ response.text = <<>> THEN <<>>
    ELSE <<hazards_response_text(response.text)>>

ReportLoaded(response) ==
    IF response.raises THEN <<>> ELSE <<report_response_text(response.text)>>

BatchLoaded(response) ==
    IF response.raises THEN <<>> ELSE <<batch_response_text(response.text)>>

\* Module-level function: self is passed by the caller.
analyze_batch_social_posts(posts, location, response) ==
    BatchExcept(BatchTry(response))

Range(f) == {f[i] : i \in DOMAIN f}

\* The keys of {location: ... for location in locations}, in insertion order.
RECURSIVE DictKeys(_, _)
DictKeys(locations, seen) ==
    IF locations = <<>> THEN seen
    ELSE DictKeys(Tail(locations),
                  IF Head(locations) \in Range(seen) THEN seen
                  ELSE Append(seen, Head(locations)))

\* asyncio.gather over the scans: analyze_current_hazards has no await, so
\* each task runs from its model call to its return before the next starts.
RECURSIVE GatherEvents(_, _)
GatherEvents(n, i) ==
    IF i > n THEN <<>>
    ELSE <<[e |-> "issue", i |-> i], [e |-> "complete", i |-> i]>>
         \o GatherEvents(n, i + 1)

\* asyncio.gather(*tasks, return_exceptions=True): each scan's return value
\* or the exception it raised.
gather(locations, responses, now) ==
    [i \in DOMAIN locations |->
        analyze_current_hazards(locations[i], responses[i], now)]

\* The dict comprehension over zip(locations, results): a repeated location
\* keeps the entry of its last occurrence.
LastOf(locations, l) ==
    CHOOSE i \in DOMAIN locations :
        /\ locations[i] = l
        /\ \A j \in DOMAIN locations : locations[j] = l => j <= i

LocationEntry(result) ==
    IF result.raised THEN JDict([error |-> JStr(result.str)]) ELSE result.value

MultiResult(locations, results, now) ==
    Return(JDict([analysis_time |-> JStr(now),
                  locations |-> JDict([l \in Range(locations) |->
                                    LocationEntry(results[LastOf(locations, l)])])]))

\* Defined inside the body of analyze_batch_social_posts, after its return.
get_multi_location_analysis(locations, responses, now) ==
    MultiResult(locations, gather(locations, responses, now), now)

(***************************************************************************)
(* class HazardMonitoringService.                                          *)
(***************************************************************************)
\* hazard[key] for one item of the hazards list.
Subscript(hazard, key) ==
    CASE hazard.t = "dict" ->
            IF key \in DOMAIN hazard.m THEN Return(hazard.m[key])
            ELSE Raise("KeyError", "'" \o key \o "'")
      [] hazard.t = "list" ->
            Raise("TypeError", "list indices must be integers or slices, not str")
      [] hazard.t = "str" ->
            Raise("TypeError", "string indices must be integers")
      [] OTHER ->
            Raise("TypeError", "'" \o hazard.t \o "' object is not subscriptable")

RECURSIVE PrintHazards(_)
PrintHazards(hazards) ==
    IF hazards = <<>> THEN Return(JNone)
    ELSE LET type == Subscript(Head(hazards), "type")
             description == Subscript(Head(hazards), "description")
         IN  IF type.raised THEN type
             ELSE IF description.raised THEN description
             ELSE PrintHazards(Tail(hazards))

send_alert(location, hazard_data) ==
    LET hazards == IF "hazards" \in DOMAIN hazard_data.m
                   THEN hazard_data.m["hazards"] ELSE JList(<<>>)
    IN  CASE hazards.t = "list" -> PrintHazards(hazards.m)
          [] hazards.t = "dict" ->
                IF DOMAIN hazards.m = {} THEN Return(JNone)
                ELSE Raise("TypeError", "string indices must be integers")
          [] hazards.t = "str" ->
                IF hazards.v = "" THEN Return(JNone)
                ELSE Raise("TypeError", "string indices must be integers")
          [] OTHER ->
                Raise("TypeError", "'" \o hazards.t \o "' object is not iterable")

HighRisk(data) ==
    LET level == Get(data, "overall_risk_level")
    IN  level.t = "str" /\ level.v \in {"HIGH", "EXTREME"}

\* Lines 262-264: the loop over results["locations"].items().
RECURSIVE AlertLoop(_, _, _)
AlertLoop(keys, mapping, alerted) ==
    IF keys = <<>> THEN [raised |-> FALSE, alerted |-> alerted]
    ELSE IF HighRisk(mapping.m[Head(keys)])
    THEN IF send_alert(Head(keys), mapping.m[Head(keys)]).raised
         THEN [raised |-> TRUE, alerted |-> Append(alerted, Head(keys))]
         ELSE AlertLoop(Tail(keys), mapping, Append(alerted, Head(keys)))
    ELSE AlertLoop(Tail(keys), mapping, alerted)

\* An except branch that ends the loop instead of sleeping and retrying.
MonitorCooldownStops(m, results, alerted) ==
    [m EXCEPT !.pc = "stopped", !.sleep = 0, !.raised = TRUE,
              !.results = results, !.alerted = alerted]

\* Line 271: the except branch of the loop.
MonitorCooldown(m, results, alerted) ==
    [m EXCEPT !.pc = "sleeping", !.sleep = 60, !.raised = TRUE,
              !.results = results, !.alerted = alerted]

\* Line 267: the end of a cycle that raised nothing.
MonitorInterval(m, results, alerted) ==
    [m EXCEPT !.pc = "sleeping", !.sleep = m.interval_minutes * 60,
              !.raised = FALSE, !.results = results, !.alerted = alerted]

(***************************************************************************)
(* State.                                                                  *)
(***************************************************************************)
MaxLocations == 2

LocationLists == UNION {[1..n -> Locations] : n \in 0..MaxLocations}
Intervals == {1, 30}
Reports == {"I saw a large shark"}
PostLists == {<<>>, <<"Huge waves">>}

NoHttp == [status |-> 0, detail |-> "", body |-> JNone]

VARIABLES
    last,     \* the last detector call that returned or raised, and the
              \* HTTP response made from it when it came over HTTP
    batch,    \* analyze_batch_social_posts waiting on asyncio.to_thread
    multi,    \* the last call of detector.get_multi_location_analysis
    monitor   \* continuous_monitoring

vars == <<last, batch, multi, monitor>>

Init ==
    /\ last = [fn |-> "none", location |-> "", model |-> "",
               response |-> NoResponse, now |-> "", loaded |-> <<>>,
               result |-> Return(JNone),
               http |-> NoHttp]
    /\ batch = [pc |-> "idle", posts |-> <<>>, location |-> ""]
    /\ multi = [called |-> FALSE, locations |-> <<>>, events |-> <<>>,
                scans |-> <<>>, result |-> Return(JNone)]
    /\ monitor = [pc |-> "stopped", locations |-> <<>>, interval_minutes |-> 0,
                  sleep |-> 0, raised |-> FALSE, alerted |-> <<>>,
                  results |-> Return(JNone)]

\* Lines 312-317 and 319-324: an exception out of the detector becomes a 500.
HttpResponse(r) ==
    IF r.raised THEN [status |-> 500, detail |-> r.str, body |-> JNone]
    ELSE [status |-> 200, detail |-> "", body |-> r.value]

Call(fn, location, model, response, now, loaded, r, over_http) ==
    [fn |-> fn, location |-> location, model |-> model, response |-> response,
     now |-> now, loaded |-> loaded, result |-> r,
     http |-> IF over_http THEN HttpResponse(r) ELSE NoHttp]

\* POST /analyze-hazards
analyze_hazards ==
    \E location \in Locations, response \in Responses, now \in Times :
        /\ last' = Call("analyze_current_hazards", location, "gemini-2.5-flash",
                        response, now, HazardsLoaded(response),
                        Attr("analyze_current_hazards",
                             analyze_current_hazards(location, response, now)),
                        TRUE)
        /\ UNCHANGED <<batch, multi, monitor>>

\* POST /analyze-user-report: no image reaches the detector over HTTP.
post_analyze_user_report ==
    \E report \in Reports, location \in Locations,
       response \in Responses, now \in Times :
        /\ last' = Call("analyze_user_report", location, "gemini-2.5-flash",
                        response, now, ReportLoaded(response),
                        Attr("analyze_user_report",
                             analyze_user_report(report, location, FALSE,
                                                 response, now)),
                        TRUE)
        /\ UNCHANGED <<batch, multi, monitor>>

\* detector.analyze_user_report(report, location, image_data) called directly.
direct_analyze_user_report ==
    \E report \in Reports, location \in Locations,
       response \in Responses, now \in Times :
        /\ last' = Call("analyze_user_report", location,
                        "gemini-2.5-flash-vision", response, now,
                        ReportLoaded(response),
                        Attr("analyze_user_report",
                             analyze_user_report(report, location, TRUE,
                                                 response, now)),
                        FALSE)
        /\ UNCHANGED <<batch, multi, monitor>>

\* analyze_batch_social_posts(detector, posts, location) up to line 206,
\* where it waits for the model call running in a thread.
batch_to_thread ==
    /\ batch.pc = "idle"
    /\ \E posts \in PostLists, location \in Locations :
           batch' = [pc |-> "to_thread", posts |-> posts, location |-> location]
    /\ UNCHANGED <<last, multi, monitor>>

\* Lines 207-218: the thread's model call ends.
batch_return ==
    /\ batch.pc = "to_thread"
    /\ \E response \in Responses :
           last' = Call("analyze_batch_social_posts", batch.location,
                        "gemini-2.5-flash", response, "",
                        BatchLoaded(response),
                        analyze_batch_social_posts(batch.posts, batch.location,
                                                   response),
                        FALSE)
    /\ batch' = [pc |-> "idle", posts |-> <<>>, location |-> ""]
    /\ UNCHANGED <<multi, monitor>>

\* detector.get_multi_location_analysis(locations), as main() calls it.
call_get_multi_location_analysis ==
    \E locations \in LocationLists :
        IF "get_multi_location_analysis" \in DetectorMethods
        THEN \E responses \in [DOMAIN locations -> Responses], now \in Times :
                /\ multi' = [called |-> TRUE, locations |-> locations,
                             events |-> GatherEvents(Len(locations), 1),
                             scans |-> gather(locations, responses, now),
                             result |-> get_multi_location_analysis(
                                            locations, responses, now)]
                /\ UNCHANGED <<last, batch, monitor>>
        ELSE /\ multi' = [called |-> TRUE, locations |-> locations,
                          events |-> <<>>, scans |-> <<>>,
                          result |-> AttributeError("get_multi_location_analysis")]
             /\ UNCHANGED <<last, batch, monitor>>

\* service.continuous_monitoring(locations, interval_minutes) is started.
monitor_start ==
    /\ monitor.pc = "stopped"
    /\ \E locations \in LocationLists, interval_minutes \in Intervals :
           monitor' = [monitor EXCEPT !.pc = "cycle", !.locations = locations,
                                      !.interval_minutes = interval_minutes]
    /\ UNCHANGED <<last, batch, multi>>

\* Lines 262-271, results being what the aggregator returned.
CycleEnd(m, results, loop) ==
    IF loop.raised THEN MonitorCooldown(m, results, loop.alerted)
    ELSE MonitorInterval(m, results, loop.alerted)

CycleAlerts(m, results) ==
    CycleEnd(m, results,
             AlertLoop(DictKeys(m.locations, <<>>),
                       results.value.m["locations"], <<>>))

\* Lines 257-271: one pass of the try block, up to the sleep it ends in.
monitor_cycle ==
    /\ monitor.pc = "cycle"
    /\ IF "get_multi_location_analysis" \in DetectorMethods
       THEN \E responses \in [DOMAIN monitor.locations -> Responses],
               now \in Times :
                monitor' = CycleAlerts(monitor,
                                       get_multi_location_analysis(
                                           monitor.locations, responses, now))
       ELSE monitor' = MonitorCooldown(
                           monitor,
                           AttributeError("get_multi_location_analysis"), <<>>)
    /\ UNCHANGED <<last, batch, multi>>

\* asyncio.sleep returns and the while loop starts its next pass.
monitor_wake ==
    /\ monitor.pc = "sleeping"
    /\ monitor' = [monitor EXCEPT !.pc = "cycle"]
    /\ UNCHANGED <<last, batch, multi>>

(***************************************************************************)
(* The request paths and the monitoring service share no state (every      *)
(* call builds its own prompt and gets its own response), so each is       *)
(* checked as a specification of its own over the same variables.          *)
(***************************************************************************)
\* The detector's request paths.
Next ==
    \/ analyze_hazards
    \/ post_analyze_user_report
    \/ direct_analyze_user_report
    \/ batch_to_thread
    \/ batch_return

Spec == Init /\ [][Next]_vars

\* The aggregator and the polling monitor.
MonitorNext ==
    \/ call_get_multi_location_analysis
    \/ monitor_start
    \/ monitor_cycle
    \/ monitor_wake

MonitorSpec == Init /\ [][MonitorNext]_vars

\* The event loop resumes a coroutine whose sleep has ended and runs a
\* coroutine that is ready.
FairMonitorSpec ==
    MonitorSpec /\ WF_vars(monitor_cycle) /\ WF_vars(monitor_wake)

(***************************************************************************)
(* Properties.                                                             *)
(***************************************************************************)
RiskLevels == {"LOW", "MEDIUM", "HIGH", "EXTREME", "UNKNOWN"}

HasStr(d, key) == d.t = "dict" /\ key \in DOMAIN d.m /\ d.m[key].t = "str"

WellFormedReport(d) ==
    /\ HasStr(d, "location")
    /\ HasStr(d, "overall_risk_level")
    /\ d.m["overall_risk_level"].v \in RiskLevels
    /\ "hazards" \in DOMAIN d.m
    /\ d.m["hazards"].t = "list"

HazardScan == last.fn = "analyze_current_hazards"

\* C1: whatever the model call produces, analyze_current_hazards(L) returns
\* (does not raise) an object whose location is L, whose overall_risk_level
\* is one of the five levels and which has a hazards list.
C1_ScanAlwaysReturnsReport ==
    HazardScan =>
        /\ ~last.result.raised
        /\ WellFormedReport(last.result.value)
        /\ last.result.value.m["location"].v = last.location

\* C2: get_multi_location_analysis returns, without raising, a locations
\* mapping with exactly N keys, the input locations, each value a
\* well-formed report or an object with an error key.
C2_MultiReturnsOneEntryPerLocation ==
    multi.called =>
        /\ ~multi.result.raised
        /\ multi.result.value.t = "dict"
        /\ "locations" \in DOMAIN multi.result.value.m
        /\ LET mapping == multi.result.value.m["locations"]
           IN  /\ mapping.t = "dict"
               /\ DOMAIN mapping.m = Range(multi.locations)
               /\ Cardinality(DOMAIN mapping.m) = Len(multi.locations)
               /\ \A l \in DOMAIN mapping.m :
                      \/ WellFormedReport(mapping.m[l])
                      \/ mapping.m[l].t = "dict" /\ "error" \in DOMAIN mapping.m[l].m

\* C3: in get_multi_location_analysis every location is scanned and its
\* entry in the returned mapping is what its own scan produced, whatever
\* the other scans did.
C3_MultiIsolatesFailures ==
    multi.called =>
        /\ ~multi.result.raised
        /\ Len(multi.scans) = Len(multi.locations)
        /\ \A i \in DOMAIN multi.locations :
               (\A j \in DOMAIN multi.locations :
                    multi.locations[j] = multi.locations[i] => j <= i)
               => /\ multi.locations[i] \in
                         DOMAIN multi.result.value.m["locations"].m
                  /\ multi.result.value.m["locations"].m[multi.locations[i]] =
                         IF multi.scans[i].raised
                         THEN JDict([error |-> JStr(multi.scans[i].str)])
                         ELSE multi.scans[i].value

\* C4: in the hazard scan an exception of the model call, an empty text and
\* a text that is not JSON each come back, returned and not raised, as the
\* error response with the location, no hazards, the level UNKNOWN and the
\* error code of its cause.
C4_ScanFailureCodes ==
    HazardScan =>
        /\ last.response.raises =>
               last.result =
                   Return(_create_error_response(last.location,
                                                 last.response.str, last.now))
        /\ ~last.response.raises /\ last.response.text = <<>> =>
               last.result =
                   Return(_create_error_response(last.location, "no_data",
                                                 last.now))
        /\ last.loaded # <<>> /\ json_loads(last.loaded[1]).raised =>
               last.result =
                   Return(_create_error_response(last.location,
                                                 "json_parse_error", last.now))

\* C5: continuous_monitoring never ends on its own: a cycle is followed by
\* a sleep and the sleep by another cycle; the sleep is interval_minutes * 60
\* seconds after a cycle that raised nothing and 60 seconds after one that
\* raised.
C5_MonitorNeverStops ==
    /\ [](monitor.pc = "sleeping" =>
              monitor.sleep = IF monitor.raised THEN 60
                              ELSE monitor.interval_minutes * 60)
    /\ [][monitor.pc # "stopped" => monitor'.pc # "stopped"]_vars
    /\ (monitor.pc = "cycle") ~> (monitor.pc = "sleeping")
    /\ (monitor.pc = "sleeping") ~> (monitor.pc = "cycle")

\* A cycle raised, the monitor slept its 60 seconds and is in its next cycle.
C5_Witness ==
    /\ monitor.pc = "cycle"
    /\ monitor.raised
    /\ monitor.sleep = 60
    /\ monitor.interval_minutes = 30

\* C6: when a cycle of the monitor ends, the aggregator has returned the
\* results of the monitored locations and send_alert has been invoked for
\* exactly the locations whose level is HIGH or EXTREME.
C6_CycleAlertsHighRisk ==
    monitor.pc = "sleeping" =>
        /\ ~monitor.results.raised
        /\ monitor.results.value.t = "dict"
        /\ "locations" \in DOMAIN monitor.results.value.m
        /\ DOMAIN monitor.results.value.m["locations"].m = Range(monitor.locations)
        /\ Range(monitor.alerted) =
               {l \in Range(monitor.locations) :
                    HighRisk(monitor.results.value.m["locations"].m[l])}

\* The model call of scan j is issued while that of scan i has not ended.
Overlap(events) ==
    \E p, q \in DOMAIN events :
        /\ p < q
        /\ events[p].e = "issue"
        /\ events[q].e = "issue"
        /\ events[q].i # events[p].i
        /\ \A r \in DOMAIN events :
               (events[r].e = "complete" /\ events[r].i = events[p].i) => r > q

\* C7: get_multi_location_analysis on two or more locations issues the
\* model call of every location, and a second location's call is issued
\* before the first location's call has ended.
C7_ScansOverlap ==
    multi.called /\ Len(multi.locations) >= 2 =>
        /\ \A i \in DOMAIN multi.locations :
               \E p \in DOMAIN multi.events :
                   multi.events[p].e = "issue" /\ multi.events[p].i = i
        /\ Overlap(multi.events)

\* The failures of a path: the model call raised, the text is empty, or the
\* text handed to json.loads is not JSON.
Failed ==
    \/ last.response.raises
    \/ last.response.text = <<>>
    \/ last.loaded # <<>> /\ json_loads(last.loaded[1]).raised

\* C8: in analyze_user_report and analyze_batch_social_posts every failure
\* is returned, not raised, as an object with an error string and is_hazard
\* false.
C8_FallbackPairOnBothPaths ==
    last.fn \in {"analyze_user_report", "analyze_batch_social_posts"} /\ Failed =>
        /\ ~last.result.raised
        /\ HasStr(last.result.value, "error")
        /\ "is_hazard" \in DOMAIN last.result.value.m
        /\ last.result.value.m["is_hazard"] = JBool("False")

\* C8, amended: analyze_user_report returns every failure as an object with
\* an error string and is_hazard false; analyze_batch_social_posts returns
\* every failure as an object whose only key is the error string.
C8_FallbackPerPath ==
    /\ last.fn = "analyze_user_report" /\ Failed =>
           /\ ~last.result.raised
           /\ HasStr(last.result.value, "error")
           /\ DOMAIN last.result.value.m = {"error", "is_hazard"}
           /\ last.result.value.m["is_hazard"] = JBool("False")
    /\ last.fn = "analyze_batch_social_posts" /\ Failed =>
           /\ ~last.result.raised
           /\ HasStr(last.result.value, "error")
           /\ DOMAIN last.result.value.m = {"error"}

\* The batch path was given a text that is not JSON and returned its fallback.
C8_Witness ==
    /\ last.fn = "analyze_batch_social_posts"
    /\ ~last.response.raises
    /\ last.loaded # <<>>
    /\ json_loads(last.loaded[1]).raised
    /\ ~last.result.raised
    /\ "error" \in DOMAIN last.result.value.m

\* A JSON object text that holds no fence marker.
CleanObject(text) ==
    /\ \A i \in DOMAIN text : text[i] # BQ
    /\ ~json_loads(text).raised
    /\ json_loads(text).value.t = "dict"

\* C9: in the hazard scan a clean JSON object text gives the same result
\* bare, inside a json fence and inside a plain fence: its parsed object
\* with processed_at and source added; on the bare text the fence step
\* changes nothing.
C9_FenceIndependent ==
    (/\ HazardScan
     /\ ~last.response.raises
     /\ last.response.fence \in {"none", "json", "bare"}
     /\ CleanObject(last.response.inner))
    => /\ ~last.result.raised
       /\ last.result.value =
              JDict(("source" :> JStr("gemini_web_analysis"))
                    @@ ("processed_at" :> JStr(last.now))
                    @@ json_loads(last.response.inner).value.m)
       /\ last.response.fence = "none" => last.loaded = <<strip(last.response.text)>>

\* A report inside a json fence was scanned and came back with its metadata.
C9_Witness ==
    /\ HazardScan
    /\ last.response.fence = "json"
    /\ CleanObject(last.response.inner)
    /\ ~last.result.raised
    /\ HasStr(last.result.value, "source")
    /\ Get(last.result.value, "overall_risk_level") = JStr("HIGH")

\* C10: on each of the three paths the text handed to json.loads is the
\* stripped response without its first 7 and last 3 characters when it
\* starts with the json fence, without its first 3 and last 3 characters
\* when it starts with a plain fence, whatever its last 3 characters are.
C10_FencesSlicedOnEveryPath ==
    last.loaded # <<>> =>
        LET text == strip(last.response.text)
        IN  IF startswith(text, FenceJson)
            THEN last.loaded[1] = strip(SubSeq(text, 8, Len(text) - 3))
            ELSE IF startswith(text, Fence)
            THEN last.loaded[1] = strip(SubSeq(text, 4, Len(text) - 3))
            ELSE last.loaded[1] = text
====
